---- MODULE Spec2Model ----
(***************************************************************************)
(* A model of the SQLite CSV importer (src/sqlite-csv-importer.py, and its *)
(* comment-stripped twin src/sqlite-db.py): the DatabaseManager with its   *)
(* import/export operations, the header normalisation, the type inference  *)
(* and the SQL safety classifier with the query command built on it.       *)
(*                                                                         *)
(* Python strings are modelled as sequences of one-character strings, so   *)
(* that strip(), upper(), lower(), startswith(), slicing and the regular   *)
(* expressions are computed character by character.                        *)
(***************************************************************************)
EXTENDS Integers, Sequences, FiniteSets, TLC

\* ------------------------------------------------------------------------
\* Characters and the str methods the program uses
\* ------------------------------------------------------------------------

LowerChars ==
    << "a", "b", "c", "d", "e", "f", "g", "h", "i", "j", "k", "l", "m",
       "n", "o", "p", "q", "r", "s", "t", "u", "v", "w", "x", "y", "z" >>

UpperChars ==
    << "A", "B", "C", "D", "E", "F", "G", "H", "I", "J", "K", "L", "M",
       "N", "O", "P", "Q", "R", "S", "T", "U", "V", "W", "X", "Y", "Z" >>

DigitChars == << "0", "1", "2", "3", "4", "5", "6", "7", "8", "9" >>

\* The whitespace characters str.strip() removes (those the model uses).
SpaceChars == { " ", "\t", "\n" }

Range(s) == { s[i] : i \in DOMAIN s }

LowerSet == Range(LowerChars)
UpperSet == Range(UpperChars)
DigitSet == Range(DigitChars)

IsLower(c) == c \in LowerSet
IsUpper(c) == c \in UpperSet
IsDigit(c) == c \in DigitSet
IsSpace(c) == c \in SpaceChars

\* The upper-case letter of each lower-case letter, and the reverse.
ToUpper == [c \in LowerSet |-> UpperChars[CHOOSE i \in 1..26 : LowerChars[i] = c]]
ToLower == [c \in UpperSet |-> LowerChars[CHOOSE i \in 1..26 : UpperChars[i] = c]]

\* str.upper() / str.lower(), one character
UpperChar(c) == IF IsLower(c) THEN ToUpper[c] ELSE c
LowerChar(c) == IF IsUpper(c) THEN ToLower[c] ELSE c

StrUpper(s) == [i \in DOMAIN s |-> UpperChar(s[i])]
StrLower(s) == [i \in DOMAIN s |-> LowerChar(s[i])]

\* str.strip(): drop the leading and the trailing whitespace
StrStrip(s) ==
    LET keep == { i \in DOMAIN s : ~IsSpace(s[i]) }
    IN  IF keep = {} THEN << >>
        ELSE LET lo == CHOOSE i \in keep : \A j \in keep : i <= j
                 hi == CHOOSE i \in keep : \A j \in keep : j <= i
             IN  SubSeq(s, lo, hi)

\* str.startswith(prefix)
StartsWith(s, prefix) ==
    /\ Len(prefix) <= Len(s)
    /\ SubSeq(s, 1, Len(prefix)) = prefix

\* s[:n]
Take(s, n) == SubSeq(s, 1, IF Len(s) < n THEN Len(s) ELSE n)

\* str.replace(old, new) for single characters
ReplaceChar(s, old, new) == [i \in DOMAIN s |-> IF s[i] = old THEN new ELSE s[i]]

\* n copies of the character c
Repeat(c, n) == [i \in 1..n |-> c]

\* ------------------------------------------------------------------------
\* Constants of the program
\* ------------------------------------------------------------------------

\* IDENT_RE = ^[A-Za-z_][A-Za-z0-9_]*$ ; in Python "$" also matches just
\* before a newline that ends the string.
IsIdentStart(c) == IsLower(c) \/ IsUpper(c) \/ c = "_"
IsIdentChar(c) == IsIdentStart(c) \/ IsDigit(c)

IsIdentifier(s) ==
    /\ Len(s) >= 1
    /\ IsIdentStart(s[1])
    /\ \A i \in DOMAIN s : IsIdentChar(s[i])

IDENT_RE_match(s) ==
    \/ IsIdentifier(s)
    \/ Len(s) >= 2 /\ s[Len(s)] = "\n" /\ IsIdentifier(SubSeq(s, 1, Len(s) - 1))

SAFE_SQL_PREFIXES ==
    { << "S", "E", "L", "E", "C", "T" >>,
      << "P", "R", "A", "G", "M", "A" >>,
      << "E", "X", "P", "L", "A", "I", "N" >> }

DANGEROUS_SQL_PREFIXES ==
    { << "U", "P", "D", "A", "T", "E" >>,
      << "D", "E", "L", "E", "T", "E" >>,
      << "I", "N", "S", "E", "R", "T" >>,
      << "D", "R", "O", "P" >>,
      << "A", "L", "T", "E", "R" >>,
      << "R", "E", "P", "L", "A", "C", "E" >>,
      << "C", "R", "E", "A", "T", "E", " ", "T", "A", "B", "L", "E" >> }

\* ------------------------------------------------------------------------
\* The SQL safety classifier
\* ------------------------------------------------------------------------

is_sql_dangerous(sql) ==
    LET s == StrUpper(StrStrip(sql))
    IN  \E prefix \in DANGEROUS_SQL_PREFIXES : StartsWith(s, prefix)

\* is_sql_safe without the strip(): leading whitespace hides the keyword.
is_sql_safe_unstripped(sql) ==
    LET s == StrUpper(sql)
    IN  \E prefix \in SAFE_SQL_PREFIXES : StartsWith(s, prefix)

is_sql_safe(sql) ==
    LET s == StrUpper(StrStrip(sql))
    IN  \E prefix \in SAFE_SQL_PREFIXES : StartsWith(s, prefix)


\* ------------------------------------------------------------------------
\* State
\* ------------------------------------------------------------------------

VARIABLES
    tables,       \* the database file: table name -> [columns, rows, indexes]
    conn,         \* self.conn is set (the manager holds an open connection)
    err_log,      \* the entries log_error appended to LOG_FILE (error kinds)
    executed,     \* the statements cli_query passed to cursor.execute, in order
    stdin_read,   \* the answers input() returned to cli_query, in order
    stdout,       \* what cli_query printed, one entry per print
    history,      \* the cli_query calls made so far: [query, asked, engine],
                  \* asked the answers the call read: << >> or << answer >>
    hash_memo,    \* per process, the values hash() has returned for the strings
                  \* it was given so far (the process's randomised str hash)
    normalized,   \* the last header normalisation: [proc, raw, index, name]
    last,         \* the last DatabaseManager call: its arguments as far as the
                  \* call read them, its result, the identifiers it put into
                  \* statement text, and the database and connection before it
    ncalls,       \* the number of DatabaseManager calls made
    handles,      \* the number of sqlite3 connections open
    sanitized,    \* the last sanitize_identifier call: [arg, raised, value]
    inferred      \* the last consistent_types call: [values, type]

queryVars == << executed, stdin_read, stdout, history >>
dbVars == << tables, conn, err_log, handles >>
pureVars == << sanitized, inferred >>
headerVars == << hash_memo, normalized >>
callVars == << last, ncalls >>
vars == << tables, conn, err_log, executed, stdin_read, stdout, history,
           hash_memo, normalized, last, ncalls, handles, sanitized, inferred >>

\* ------------------------------------------------------------------------
\* The database: tables, the audit table, connect
\* ------------------------------------------------------------------------

\* A database file with no table.
NoTables == << >>

\* No DatabaseManager call has been made.
NoCall ==
    [op |-> "none", table_name |-> << >>, file |-> "none", append |-> FALSE,
     create_index_on |-> << >>, read |-> {}, result |-> "none", idents |-> {},
     output |-> << >>, query |-> << >>, pre |-> NoTables, pre_conn |-> FALSE]

AuditTableName == << "a", "u", "d", "i", "t", "_", "l", "o", "g" >>

\* CREATE TABLE IF NOT EXISTS audit_log (id ..., event_type ..., details ...,
\* created_at ...)
AuditColumns ==
    << [name |-> << "i", "d" >>, type |-> "INTEGER"],
       [name |-> << "e", "v", "e", "n", "t", "_", "t", "y", "p", "e" >>, type |-> "TEXT"],
       [name |-> << "d", "e", "t", "a", "i", "l", "s" >>, type |-> "TEXT"],
       [name |-> << "c", "r", "e", "a", "t", "e", "d", "_", "a", "t" >>, type |-> "TIMESTAMP"] >>

\* SQLite compares table, column and index names without regard to ASCII case.
SameName(a, b) == StrLower(a) = StrLower(b)

\* The table of the database a statement naming `name` works on.
HasTable(tbls, name) == \E k \in DOMAIN tbls : SameName(k, name)
TableKey(tbls, name) == CHOOSE k \in DOMAIN tbls : SameName(k, name)

\* tbls with table k set to t
PutTable(tbls, k, t) ==
    [x \in DOMAIN tbls \cup { k } |-> IF x = k THEN t ELSE tbls[x]]

\* A CREATE TABLE that replaces the table of that name.
CreateTable_replacing(tbls, name, columns) ==
    PutTable(IF HasTable(tbls, name)
             THEN [x \in DOMAIN tbls \ { TableKey(tbls, name) } |-> tbls[x]] ELSE tbls,
             name, [columns |-> columns, rows |-> << >>, indexes |-> {}])

\* CREATE TABLE IF NOT EXISTS name (columns)
CreateTableIfNotExists(tbls, name, columns) ==
    IF HasTable(tbls, name) THEN tbls
    ELSE PutTable(tbls, name, [columns |-> columns, rows |-> << >>, indexes |-> {}])

\* A connect() that opens a connection whether or not one is open.
Opened_always(connected, n) == n + 1

\* connect(): sqlite3.connect is called only when self.conn is not set; n
\* connections were open before.
Opened(connected, n) == IF connected THEN n ELSE n + 1

\* No sanitize_identifier call and no consistent_types call has been made.
NoSanitize == [arg |-> [is_str |-> TRUE, chars |-> << >>], raised |-> "no call", value |-> << >>]
NoInference == [values |-> << >>, type |-> "none"]

\* connect(): opens the connection when there is none, and then
\* _create_audit_table(); a no-op when connected.
Connect(tbls, connected) ==
    IF connected THEN tbls
    ELSE CreateTableIfNotExists(tbls, AuditTableName, AuditColumns)

\* _log_event: INSERT INTO audit_log (event_type, details); id is the next
\* AUTOINCREMENT value and created_at the default. A failure of the insert
\* (insert_ok false, or no audit_log table with these columns) goes to the
\* error log and is not raised.
LogEvent(tbls, errs, event_type, details, insert_ok) ==
    IF /\ insert_ok
       /\ HasTable(tbls, AuditTableName)
       /\ tbls[TableKey(tbls, AuditTableName)].columns = AuditColumns
    THEN LET k == TableKey(tbls, AuditTableName)
             row == << Len(tbls[k].rows) + 1, event_type, details, "CURRENT_TIMESTAMP" >>
         IN  [tables |-> [tbls EXCEPT ![k].rows = Append(@, row)], err |-> errs]
    ELSE [tables |-> tbls, err |-> Append(errs, "audit_insert")]

\* The rows of audit_log as [event_type, details] records.
AuditRows(tbls) ==
    IF HasTable(tbls, AuditTableName)
    THEN [i \in DOMAIN tbls[TableKey(tbls, AuditTableName)].rows |->
            [event_type |-> tbls[TableKey(tbls, AuditTableName)].rows[i][2],
             details |-> tbls[TableKey(tbls, AuditTableName)].rows[i][3]]]
    ELSE << >>

\* ------------------------------------------------------------------------
\* Header normalisation (import_csv, the header loop)
\* ------------------------------------------------------------------------

\* str(n) for n >= 0
RECURSIVE DecStr(_)
DecStr(n) ==
    IF n < 10 THEN << DigitChars[n + 1] >>
    ELSE DecStr(n \div 10) \o << DigitChars[(n % 10) + 1] >>

\* hash(h) & 0xFFFF
HashMask == 65536

\* re.sub(r"[^A-Za-z0-9_]", "_", h)
SubInvalidChars(h) == [i \in DOMAIN h |-> IF IsIdentChar(h[i]) THEN h[i] ELSE "_"]

\* h.strip().replace(" ", "_") or f"col{i}"
StripOrPositional(raw, i) ==
    LET h == ReplaceChar(StrStrip(raw), " ", "_")
    IN  IF h = << >> THEN << "c", "o", "l" >> \o DecStr(i) ELSE h

\* The header reaches the hash fallback: invalid, and invalid after re.sub.
NeedsHash(raw, i) ==
    LET h == StripOrPositional(raw, i)
    IN  ~IDENT_RE_match(h) /\ ~IDENT_RE_match(SubInvalidChars(h))

\* f"col_{hash(h) & 0xFFFF}"
HashFallbackName(hashval) ==
    << "c", "o", "l", "_" >> \o DecStr(hashval % HashMask)

\* The header loop without the second IDENT_RE test: the repaired string is
\* used even when it still starts with a digit.
NormalizeHeader_norecheck(raw, i, hashval) ==
    LET h == StripOrPositional(raw, i)
    IN  IF IDENT_RE_match(h) THEN h ELSE SubInvalidChars(h)

\* One header cell: lines 161-168, with hashval the value hash(h) returns.
NormalizeHeader(raw, i, hashval) ==
    LET h == StripOrPositional(raw, i)
    IN  IF IDENT_RE_match(h) THEN h
        ELSE LET safe == SubInvalidChars(h)
             IN  IF IDENT_RE_match(safe) THEN safe
                 ELSE HashFallbackName(hashval)

\* The processes that run imports; each has its own string-hash seed.
Procs == { "p1", "p2" }

\* Values hash() may return: a 64-bit signed integer that depends on the
\* process's seed.
HashValues == { -1, 5, 65541 }

\* The largest positional index of a header cell.
MaxHeaderIndex == 1

RawHeaders ==
    { << "a" >>, << "N", "a", "m", "e" >>, << "_", "x", "1" >>,
      << " ", "a", " ", "b", "\t" >>, << >>, << " ", " " >>,
      << "a", "-", "b" >>, << "-" >>, << "a", "\n", "b" >>,
      << "1", "a" >>, << " ", "1", "a" >>, << "1", " ", "a" >> }

NoHeader == [proc |-> "none", raw |-> << >>, index |-> 0, name |-> << >>]

\* hash(h) in process p: the value already returned for h, else any value,
\* remembered for the rest of the process.
HashChoices(p, h) ==
    IF h \in DOMAIN hash_memo[p] THEN { hash_memo[p][h] } ELSE HashValues

Remember(memo, h, v) ==
    [x \in DOMAIN memo \cup { h } |-> IF x = h THEN v ELSE memo[x]]

\* Process p normalises header cell raw at position i.
NormalizeHeaderCell(p, raw, i) ==
    LET h == StripOrPositional(raw, i)
    IN  IF NeedsHash(raw, i)
        THEN \E v \in HashChoices(p, h) :
                /\ hash_memo' = [hash_memo EXCEPT ![p] = Remember(@, h, v)]
                /\ normalized' = [proc |-> p, raw |-> raw, index |-> i,
                                  name |-> NormalizeHeader(raw, i, v)]
        ELSE /\ normalized' = [proc |-> p, raw |-> raw, index |-> i,
                               name |-> NormalizeHeader(raw, i, 0)]
             /\ UNCHANGED hash_memo

NormalizeHeaders ==
    /\ \E p \in Procs, raw \in RawHeaders, i \in 0..MaxHeaderIndex :
          NormalizeHeaderCell(p, raw, i)
    /\ UNCHANGED << dbVars, queryVars, callVars, pureVars >>

InitHeader ==
    /\ tables = NoTables
    /\ conn = FALSE
    /\ err_log = << >>
    /\ executed = << >>
    /\ stdin_read = << >>
    /\ stdout = << >>
    /\ history = << >>
    /\ hash_memo = [p \in Procs |-> << >>]
    /\ normalized = NoHeader
    /\ last = NoCall
    /\ ncalls = 0
    /\ handles = 0
    /\ sanitized = NoSanitize
    /\ inferred = NoInference

NextHeader == NormalizeHeaders

SpecHeader == InitHeader /\ [][NextHeader]_vars

\* ------------------------------------------------------------------------
\* sanitize_identifier and consistent_types
\* ------------------------------------------------------------------------

\* sanitize_identifier(name) returns name.strip() when it matches IDENT_RE and
\* raises ValueError otherwise.
sanitize_identifier_raises(name) == ~IDENT_RE_match(StrStrip(name))

\* A sanitize_identifier that returns its argument as it was given.
sanitize_identifier_unstripped(name) == name

sanitize_identifier(name) == StrStrip(name)

\* One call of sanitize_identifier. The argument is [is_str, chars]: a str
\* with these characters, or a value that is not a str. The outcome is
\* [arg, raised, value]: raised is "no" and value the string returned, or
\* raised is the error.
sanitize_identifier_call(arg) ==
    IF ~arg.is_str
    THEN [arg |-> arg, raised |-> "ValueError: Identifier must be a string", value |-> << >>]
    ELSE IF sanitize_identifier_raises(arg.chars)
    THEN [arg |-> arg, raised |-> "ValueError: Invalid identifier", value |-> << >>]
    ELSE [arg |-> arg, raised |-> "no", value |-> sanitize_identifier(arg.chars)]

\* The longest string given to sanitize_identifier.
MaxNameLen == 3

\* The characters of those strings: letters of both cases, a digit, the
\* underscore, two kinds of whitespace, a character outside the pattern.
NameChars == { "a", "Z", "1", "_", " ", "\n", "-" }

StringsUpTo(chars, n) == UNION { [1..k -> chars] : k \in 0..n }

\* The arguments: every such string, and a value that is not a str.
SanitizeArgs ==
    { [is_str |-> TRUE, chars |-> c] : c \in StringsUpTo(NameChars, MaxNameLen) }
    \cup { [is_str |-> FALSE, chars |-> << >>] }

\* The call is made on the argument the initial state holds.
SanitizeIdentifier ==
    /\ sanitized.raised = "no call"
    /\ sanitized' = sanitize_identifier_call(sanitized.arg)
    /\ UNCHANGED << dbVars, queryVars, headerVars, callVars, inferred >>

InitSanitize ==
    /\ tables = NoTables
    /\ conn = FALSE
    /\ err_log = << >>
    /\ executed = << >>
    /\ stdin_read = << >>
    /\ stdout = << >>
    /\ history = << >>
    /\ hash_memo = [p \in Procs |-> << >>]
    /\ normalized = NoHeader
    /\ last = NoCall
    /\ ncalls = 0
    /\ handles = 0
    /\ sanitized \in { [arg |-> a, raised |-> "no call", value |-> << >>] : a \in SanitizeArgs }
    /\ inferred = NoInference

NextSanitize == SanitizeIdentifier

SpecSanitize == InitSanitize /\ [][NextSanitize]_vars

\* A numeric text without its sign.
Unsigned(s) == IF Len(s) >= 1 /\ s[1] \in { "+", "-" } THEN Tail(s) ELSE s

\* sign, digits
IsIntLiteral(s) ==
    LET u == Unsigned(s)
    IN  Len(u) >= 1 /\ \A i \in DOMAIN u : IsDigit(u[i])

\* sign, digits with at most one "." among them, at least one digit
IsRealLiteral(s) ==
    LET u == Unsigned(s)
        dots == { i \in DOMAIN u : u[i] = "." }
    IN  /\ Cardinality(dots) <= 1
        /\ \A i \in DOMAIN u \ dots : IsDigit(u[i])
        /\ \E i \in DOMAIN u : IsDigit(u[i])

\* int(v) and float(v) succeed; both ignore surrounding whitespace. (Of the
\* texts float() accepts, exponents, inf, nan and digit-group underscores are
\* outside the cells of the model.)
PyIsInt(v) == IsIntLiteral(StrStrip(v))
PyIsFloat(v) == IsRealLiteral(StrStrip(v))

\* A loop in which an integer sample sets the candidate back to INTEGER.
RECURSIVE ScanTypes_demoting(_, _, _)
ScanTypes_demoting(values, k, t) ==
    IF k > Len(values) THEN t
    ELSE IF values[k] = << >> THEN "TEXT"
    ELSE IF PyIsInt(values[k]) THEN ScanTypes_demoting(values, k + 1, "INTEGER")
    ELSE IF PyIsFloat(values[k]) THEN ScanTypes_demoting(values, k + 1, "REAL")
    ELSE "TEXT"

\* A loop that returns REAL at the first sample that is a float only.
RECURSIVE ScanTypes_returns_real(_, _, _)
ScanTypes_returns_real(values, k, t) ==
    IF k > Len(values) THEN t
    ELSE IF values[k] = << >> THEN "TEXT"
    ELSE IF PyIsInt(values[k]) THEN ScanTypes_returns_real(values, k + 1, t)
    ELSE IF PyIsFloat(values[k]) THEN "REAL"
    ELSE "TEXT"

\* The loop of consistent_types from sample k on, with running candidate t.
RECURSIVE ScanTypes(_, _, _)
ScanTypes(values, k, t) ==
    IF k > Len(values) THEN t
    ELSE IF values[k] = << >> THEN "TEXT"
    ELSE IF PyIsInt(values[k]) THEN ScanTypes(values, k + 1, t)
    ELSE IF PyIsFloat(values[k])
         THEN ScanTypes(values, k + 1, IF t = "INTEGER" THEN "REAL" ELSE t)
    ELSE "TEXT"

consistent_types(values) == ScanTypes(values, 1, "INTEGER")

\* The longest list of samples given to consistent_types.
MaxSamples == 3

\* The samples: empty, integers, floats, an integer between spaces, texts
\* that are no number.
SampleCells ==
    { << >>, << "1" >>, << "-", "2" >>, << "1", ".", "5" >>, << " ", "3", " " >>,
      << "x" >>, << "." >> }

SampleLists == UNION { [1..k -> SampleCells] : k \in 0..MaxSamples }

\* The call is made on the samples the initial state holds.
ConsistentTypes ==
    /\ inferred.type = "none"
    /\ inferred' = [values |-> inferred.values, type |-> consistent_types(inferred.values)]
    /\ UNCHANGED << dbVars, queryVars, headerVars, callVars, sanitized >>

InitTypes ==
    /\ tables = NoTables
    /\ conn = FALSE
    /\ err_log = << >>
    /\ executed = << >>
    /\ stdin_read = << >>
    /\ stdout = << >>
    /\ history = << >>
    /\ hash_memo = [p \in Procs |-> << >>]
    /\ normalized = NoHeader
    /\ last = NoCall
    /\ ncalls = 0
    /\ handles = 0
    /\ sanitized = NoSanitize
    /\ inferred \in { [values |-> v, type |-> "none"] : v \in SampleLists }

NextTypes == ConsistentTypes

SpecTypes == InitTypes /\ [][NextTypes]_vars

\* ------------------------------------------------------------------------
\* Stored values: SQLite's column affinity, and how a value reads back
\* ------------------------------------------------------------------------

RECURSIVE StripLeadingZeros(_)
StripLeadingZeros(d) ==
    IF Len(d) > 1 /\ d[1] = "0" THEN StripLeadingZeros(Tail(d))
    ELSE IF d = << >> THEN << "0" >> ELSE d

RECURSIVE StripTrailingZeros(_)
StripTrailingZeros(d) ==
    IF Len(d) > 1 /\ d[Len(d)] = "0" THEN StripTrailingZeros(SubSeq(d, 1, Len(d) - 1))
    ELSE IF d = << >> THEN << "0" >> ELSE d

\* The digits before and after the "." of a numeric text.
IntDigits(s) ==
    LET u == Unsigned(s)
    IN  IF \E i \in DOMAIN u : u[i] = "."
        THEN SubSeq(u, 1, (CHOOSE i \in DOMAIN u : u[i] = ".") - 1)
        ELSE u
FracDigits(s) ==
    LET u == Unsigned(s)
    IN  IF \E i \in DOMAIN u : u[i] = "."
        THEN SubSeq(u, (CHOOSE i \in DOMAIN u : u[i] = ".") + 1, Len(u))
        ELSE << >>

IsZeroDigits(d) == \A i \in DOMAIN d : d[i] = "0"

SignOf(s) ==
    IF Len(s) >= 1 /\ s[1] = "-" /\ ~(IsZeroDigits(IntDigits(s)) /\ IsZeroDigits(FracDigits(s)))
    THEN << "-" >> ELSE << >>

NullValue == [class |-> "null", text |-> << >>]
TextValue(s) == [class |-> "text", text |-> s]
\* An integer reads back as str(int): no sign "+", no leading zeros.
IntegerValue(s) == [class |-> "integer", text |-> SignOf(s) \o StripLeadingZeros(IntDigits(s))]
\* A real reads back as repr(float): digits "." digits.
RealValue(s) ==
    [class |-> "real",
     text |-> SignOf(s) \o StripLeadingZeros(IntDigits(s)) \o << "." >>
              \o StripTrailingZeros(FracDigits(s))]

\* What a text bound to an INSERT parameter is stored as in a column of the
\* declared type: TEXT keeps it; INTEGER (and any other numeric type name)
\* stores a numeric text as an integer when it has no fraction and as a real
\* otherwise; REAL stores a numeric text as a real; other text stays text.
Affinity(type, s) ==
    IF type = "TEXT" \/ ~IsRealLiteral(s) THEN TextValue(s)
    ELSE IF type = "REAL" THEN RealValue(s)
    ELSE IF IsZeroDigits(FracDigits(s)) THEN IntegerValue(s)
    ELSE RealValue(s)

\* ------------------------------------------------------------------------
\* The statements import_csv, export_table_to_csv and table_info execute
\* ------------------------------------------------------------------------

HasColumn(t, c) == \E j \in DOMAIN t.columns : SameName(t.columns[j].name, c)

\* INSERT INTO t (collist) VALUES (?, ...) fails when a listed column is not
\* a column of the table.
InsertFails(t, collist) == \E i \in DOMAIN collist : ~HasColumn(t, collist[i])

\* The row the INSERT stores: per column of the table the value bound to the
\* first listed name that is this column, NULL when none is.
InsertedRow(t, collist, cleaned) ==
    [j \in DOMAIN t.columns |->
        IF \E i \in DOMAIN collist : SameName(collist[i], t.columns[j].name)
        THEN LET i == CHOOSE i \in DOMAIN collist :
                         /\ SameName(collist[i], t.columns[j].name)
                         /\ \A i2 \in 1..(i - 1) : ~SameName(collist[i2], t.columns[j].name)
             IN  Affinity(t.columns[j].type, cleaned[i])
        ELSE NullValue]

\* A row INSERTed into audit_log by another statement than _log_event's: id
\* is the next AUTOINCREMENT value, event_type and details the texts bound
\* to them, created_at the default.
AuditInsertedRow(t, collist, cleaned, id) ==
    << id, InsertedRow(t, collist, cleaned)[2].text,
       InsertedRow(t, collist, cleaned)[3].text, "CURRENT_TIMESTAMP" >>

\* event_type TEXT NOT NULL: an INSERT INTO audit_log that does not list
\* event_type fails.
AuditInsertFails(name, collist) ==
    /\ SameName(name, AuditTableName)
    /\ ~\E i \in DOMAIN collist : SameName(collist[i], AuditColumns[2].name)

\* cleaned = [str(cell).strip() for cell in row]
CleanRow(row) == [i \in DOMAIN row |-> StrStrip(row[i])]

\* CREATE TABLE fails on two columns of the same name.
HasDuplicateColumn(columns) ==
    \E i, j \in DOMAIN columns : i < j /\ SameName(columns[i].name, columns[j].name)

\* Every index of the database, as [name, column] records.
AllIndexes(tbls) == UNION { tbls[k].indexes : k \in DOMAIN tbls }
HasIndex(tbls, name) == \E x \in AllIndexes(tbls) : SameName(x.name, name)

\* f"idx_{tn}_{ci}"
IndexName(tn, ci) == << "i", "d", "x", "_" >> \o tn \o << "_" >> \o ci

\* A name interpolated into f"...'{raw}'..." as the engine reads it: text is
\* what follows the opening quote, raw and then the rest of the statement;
\* the name ends at the first quote of text, and what follows that quote is
\* statement text.
QuotedName(text) ==
    LET q == CHOOSE i \in DOMAIN text :
                 text[i] = "'" /\ \A j \in 1..(i - 1) : text[j] # "'"
    IN  [name |-> SubSeq(text, 1, q - 1), rest |-> SubSeq(text, q + 1, Len(text))]

\* Nothing, or a comment to the end of the statement.
IsBlankOrComment(rest) ==
    StrStrip(rest) = << >> \/ StartsWith(StrStrip(rest), << "-", "-" >>)

\* What may follow the table name of SELECT * FROM 'name'.
SelectRestParses(rest) == IsBlankOrComment(rest)

\* What may follow the argument of PRAGMA table_info('name': the closing
\* parenthesis, then nothing, a semicolon, a comment.
PragmaRestParses(rest) ==
    LET r == StrStrip(rest)
    IN  /\ StartsWith(r, << ")" >>)
        /\ LET r2 == StrStrip(Tail(r))
           IN  \/ IsBlankOrComment(r2)
               \/ StartsWith(r2, << ";" >>) /\ IsBlankOrComment(Tail(r2))

\* ------------------------------------------------------------------------
\* import_csv
\* ------------------------------------------------------------------------

\* MAX_CSV_SIZE = 10 * 1024 * 1024
MAX_CSV_SIZE == 10485760

\* for _ in range(20): the sample window
SampleRows == 20

EndsWith(s, suffix) ==
    /\ Len(suffix) <= Len(s)
    /\ SubSeq(s, Len(s) - Len(suffix) + 1, Len(s)) = suffix

\* A size test that refuses a file of exactly the maximum too.
FileTooLarge_inclusive(file) == file.size >= MAX_CSV_SIZE

\* A file is [id, path, mime, size, lines]: mime is what mimetypes.guess_type
\* answers for the path, size what os.path.getsize answers, lines the rows
\* csv.reader yields, the header row first.
FileTooLarge(file) == file.size > MAX_CSV_SIZE

InvalidFileType(file) ==
    /\ file.mime # "text/csv"
    /\ ~EndsWith(StrLower(file.path), << ".", "c", "s", "v" >>)

EmptyInput(file) == file.lines = << >>

\* The strings of a header row that reach hash().
HashedStrings(raw_headers) ==
    { StripOrPositional(raw_headers[i], i - 1) :
        i \in { j \in DOMAIN raw_headers : NeedsHash(raw_headers[j], j - 1) } }

\* headers after the normalisation loop; hashes gives hash(h) for the strings
\* that reach it.
NormalizedHeaders(raw_headers, hashes) ==
    [i \in DOMAIN raw_headers |->
        NormalizeHeader(raw_headers[i], i - 1,
                        IF NeedsHash(raw_headers[i], i - 1)
                        THEN hashes[StripOrPositional(raw_headers[i], i - 1)]
                        ELSE 0)]

DataRows(file) == Tail(file.lines)

\* A sampling loop that stops one row early.
SampleOf_short(rows) ==
    SubSeq(rows, 1, IF Len(rows) < SampleRows - 1 THEN Len(rows) ELSE SampleRows - 1)

\* A sampling loop that reads every row.
SampleOf_all(rows) == rows

\* The rows the sampling loop reads: up to the first 20 data rows.
SampleOf(rows) == SubSeq(rows, 1, IF Len(rows) < SampleRows THEN Len(rows) ELSE SampleRows)
\* The rows left in the reader after the sampling loop.
RestOf(rows) == SubSeq(rows, SampleRows + 1, Len(rows))

HasBadRow(rows, width) == \E i \in DOMAIN rows : Len(rows[i]) # width

\* The rows before the first one whose length is not width.
GoodPrefix(rows, width) ==
    IF HasBadRow(rows, width)
    THEN SubSeq(rows, 1, (CHOOSE i \in DOMAIN rows :
                             /\ Len(rows[i]) # width
                             /\ \A j \in 1..(i - 1) : Len(rows[j]) = width) - 1)
    ELSE rows

\* columns_sql: one column per header, typed from the sampled values
ColumnsSql(headers, sample_rows) ==
    [c \in DOMAIN headers |->
        [name |-> headers[c],
         type |-> consistent_types(
                     [r \in DOMAIN sample_rows |->
                         IF c <= Len(sample_rows[r]) THEN sample_rows[r][c] ELSE << >>])]]

\* The checks of import_csv up to the sampling loop: the error raised, or "ok".
ImportPrecheck(file, table_name) ==
    IF sanitize_identifier_raises(table_name) THEN "ValueError: Invalid identifier"
    ELSE IF FileTooLarge(file) THEN "ValueError: CSV file size exceeds max allowed"
    ELSE IF InvalidFileType(file) THEN "ValueError: Invalid file type. Only CSV allowed."
    ELSE IF EmptyInput(file) THEN "ValueError: CSV appears empty"
    ELSE IF HasBadRow(SampleOf(DataRows(file)), Len(file.lines[1]))
         THEN "ValueError: CSV row length mismatch: expected"
    ELSE "ok"

\* The statements inside "with self.conn:", from database t1 on. The
\* connection is opened with isolation_level=None (autocommit), so every
\* statement is committed as it executes and the rollback the context manager
\* issues on an exception finds no open transaction: what was executed before
\* the exception stays.
ImportStatements(t1, file, tn, headers, create_index_on) ==
    LET rows == DataRows(file)
        sample_rows == SampleOf(rows)
        columns == ColumnsSql(headers, sample_rows)
        width == Len(headers)
        names == { tn } \cup Range(headers)
    IN  IF ~HasTable(t1, tn) /\ HasDuplicateColumn(columns)
        THEN [result |-> "sqlite3.OperationalError: duplicate column name",
              tables |-> t1, idents |-> names, read |-> {}]
        ELSE
        LET t2 == CreateTableIfNotExists(t1, tn, columns)
            k == TableKey(t2, tn)
            to_insert == sample_rows \o GoodPrefix(RestOf(rows), width)
        IN  IF to_insert # << >> /\ InsertFails(t2[k], headers)
            THEN [result |-> "sqlite3.OperationalError: table has no column named",
                  tables |-> t2, idents |-> names, read |-> {}]
            ELSE IF to_insert # << >> /\ AuditInsertFails(tn, headers)
            THEN [result |-> "sqlite3.IntegrityError: NOT NULL constraint failed",
                  tables |-> t2, idents |-> names, read |-> {}]
            ELSE
            LET t3 == [t2 EXCEPT ![k].rows =
                          @ \o [i \in DOMAIN to_insert |->
                                   IF SameName(tn, AuditTableName)
                                   THEN AuditInsertedRow(t2[k], headers,
                                            CleanRow(to_insert[i]), Len(t2[k].rows) + i)
                                   ELSE InsertedRow(t2[k], headers, CleanRow(to_insert[i]))]]
            IN  IF HasBadRow(RestOf(rows), width)
                THEN [result |-> "ValueError: CSV row length mismatch during import",
                      tables |-> t3, idents |-> names, read |-> {}]
                ELSE IF create_index_on = << >>
                THEN [result |-> "ok", tables |-> t3, idents |-> names,
                      read |-> { "create_index_on" }]
                ELSE IF sanitize_identifier_raises(create_index_on)
                THEN [result |-> "ValueError: Invalid identifier", tables |-> t3,
                      idents |-> names, read |-> { "create_index_on" }]
                ELSE
                LET ci == sanitize_identifier(create_index_on)
                    idx_name == IndexName(tn, ci)
                    all == names \cup { idx_name, ci }
                IN  IF HasIndex(t3, idx_name)
                    THEN [result |-> "ok", tables |-> t3, idents |-> all,
                          read |-> { "create_index_on" }]
                    ELSE IF ~HasColumn(t3[k], ci)
                    THEN [result |-> "sqlite3.OperationalError: no such column",
                          tables |-> t3, idents |-> all, read |-> { "create_index_on" }]
                    ELSE [result |-> "ok",
                          tables |-> [t3 EXCEPT ![k].indexes =
                                         @ \cup { [name |-> idx_name, column |-> ci] }],
                          idents |-> all, read |-> { "create_index_on" }]

\* import_csv(csv_path, table_name, append, create_index_on) on database tbls:
\* [result, tables, conn, err, idents, read], result "ok" or the exception raised,
\* idents the names put into statement text, read the arguments it looked at
\* beyond table_name.
import_csv(tbls, connected, errs, file, table_name, append, create_index_on, hashes) ==
    LET pre == ImportPrecheck(file, table_name)
    IN  IF pre # "ok"
        THEN [result |-> pre, tables |-> tbls, conn |-> connected, idents |-> {},
              err |-> errs,
              read |-> IF sanitize_identifier_raises(table_name) THEN {} ELSE { "file" }]
        ELSE
        LET tn == sanitize_identifier(table_name)
            headers == NormalizedHeaders(file.lines[1], hashes)
            t1 == Connect(tbls, connected)
            table_exists == tn \in DOMAIN t1
        IN  IF table_exists /\ ~append
            THEN [result |-> "FileExistsError", tables |-> t1, conn |-> TRUE,
                  idents |-> {}, err |-> errs, read |-> { "file", "append" }]
            ELSE
            LET done == ImportStatements(t1, file, tn, headers, create_index_on)
                logged == LogEvent(done.tables, errs, "IMPORT_CSV",
                                   << tn, file.path, file.size >>, TRUE)
            IN  [result |-> done.result,
                 tables |-> IF done.result = "ok" THEN logged.tables ELSE done.tables,
                 conn |-> TRUE,
                 idents |-> done.idents,
                 err |-> IF done.result = "ok" THEN logged.err ELSE errs,
                 read |-> { "file" } \cup done.read
                          \cup IF table_exists THEN { "append" } ELSE {}]

\* ------------------------------------------------------------------------
\* export_table_to_csv and table_info
\* ------------------------------------------------------------------------

\* writer.writerow: an integer as str(int), a real as repr(float), text as
\* it is, None as the empty field.
RenderRow(row) == [i \in DOMAIN row |-> row[i].text]

\* export_table_to_csv(table_name, filepath): [result, tables, conn, err,
\* idents, output], output the header line and the rows written to filepath.
export_table_to_csv(tbls, connected, errs, table_name, filepath) ==
    LET t1 == Connect(tbls, connected)
        q == QuotedName(table_name \o << "'" >>)
    IN  IF ~SelectRestParses(q.rest)
        THEN [result |-> "sqlite3.OperationalError: syntax error", tables |-> t1,
              conn |-> TRUE, err |-> errs, idents |-> { table_name }, output |-> << >>]
        ELSE IF ~HasTable(t1, q.name)
        THEN [result |-> "sqlite3.OperationalError: no such table", tables |-> t1,
              conn |-> TRUE, err |-> errs, idents |-> { table_name }, output |-> << >>]
        ELSE
        LET t == t1[TableKey(t1, q.name)]
            columns == [j \in DOMAIN t.columns |-> t.columns[j].name]
            rows == IF SameName(q.name, AuditTableName) THEN t.rows
                    ELSE [i \in DOMAIN t.rows |-> RenderRow(t.rows[i])]
            logged == LogEvent(t1, errs, "EXPORT_CSV", << table_name, filepath >>, TRUE)
        IN  [result |-> "ok", tables |-> logged.tables, conn |-> TRUE,
             err |-> logged.err, idents |-> { table_name },
             output |-> << columns >> \o rows]

\* table_info(table_name): the (name, type) of the columns PRAGMA table_info
\* lists, none for a table that does not exist.
table_info(tbls, connected, table_name) ==
    LET t1 == Connect(tbls, connected)
        q == QuotedName(table_name \o << "'", ")" >>)
    IN  IF ~PragmaRestParses(q.rest)
        THEN [result |-> "sqlite3.OperationalError: syntax error", tables |-> t1,
              conn |-> TRUE, idents |-> { table_name }, output |-> << >>]
        ELSE [result |-> "ok", tables |-> t1, conn |-> TRUE, idents |-> { table_name },
              output |-> IF HasTable(t1, q.name)
                         THEN t1[TableKey(t1, q.name)].columns ELSE << >>]

\* ------------------------------------------------------------------------
\* The calls made on the manager
\* ------------------------------------------------------------------------

\* The number of DatabaseManager calls of one run of the model.
MaxCalls == 2

\* The cell every row of a generated file repeats.
FillCell == << "1" >>

FillRows(n, width) == [i \in 1..n |-> [c \in 1..width |-> FillCell]]

CsvPath == << "d", ".", "c", "s", "v" >>

CsvFile(id, size, lines) ==
    [id |-> id, path |-> CsvPath, mime |-> "text/csv", size |-> size, lines |-> lines]

\* The files an import may be given.
Files ==
    { \* one row; the file is as large as a CSV may be
      CsvFile("one", MAX_CSV_SIZE, << << << "a" >> >>, << << " ", "7" >> >> >>),
      \* two columns, the second header to be repaired; 20 rows of 1, then a
      \* row of text
      CsvFile("long", 200,
              << << << "a" >>, << " ", "b", " ", "c" >> >> >>
                 \o FillRows(SampleRows, 2)
                 \o << << << "x" >>, << "1", ".", "5" >> >> >>),
      \* the third data row has one field fewer than the header
      CsvFile("bad3", 30,
              << << << "a" >>, << "b" >> >> >> \o FillRows(2, 2) \o << << FillCell >> >>),
      \* the last row of the sample window is too long
      CsvFile("bad20", 100,
              << << << "a" >> >> >> \o FillRows(SampleRows - 1, 1)
                 \o << << FillCell, FillCell >> >>),
      \* the first row after the sample window is too long
      CsvFile("bad21", 100,
              << << << "a" >> >> >> \o FillRows(SampleRows, 1)
                 \o << << FillCell, FillCell >> >> \o FillRows(1, 1)),
      CsvFile("empty", 0, << >>),
      CsvFile("big", MAX_CSV_SIZE + 1, << << << "a" >> >>, << FillCell >> >>),
      [id |-> "txt", path |-> << "d", ".", "t", "x", "t" >>, mime |-> "text/plain",
       size |-> 4, lines |-> << << << "a" >> >>, << FillCell >> >>],
      \* too large and not a CSV
      [id |-> "bigtxt", path |-> << "d", ".", "t", "x", "t" >>, mime |-> "text/plain",
       size |-> MAX_CSV_SIZE + 1, lines |-> << << << "a" >> >>, << FillCell >> >>],
      \* a CSV by its name in upper case only: no media type is guessed; its
      \* column is text
      [id |-> "upper", path |-> << "D", ".", "C", "S", "V" >>, mime |-> "none",
       size |-> 4, lines |-> << << << "a" >> >>, << << "x" >> >> >>],
      \* the rows of long without the row after the sample window
      CsvFile("long20", 190,
              << << << "a" >>, << " ", "b", " ", "c" >> >> >> \o FillRows(SampleRows, 2)),
      \* numbers written with leading zeros and spaces; an integer in a
      \* column of floats
      CsvFile("num", 18,
              << << << "a" >>, << "b" >> >>,
                 << << "0", "0", "7" >>, << "1" >> >>,
                 << << " ", "2", " " >>, << "1", ".", "5" >> >> >>),
      \* the columns of the audit table
      CsvFile("aud", 24,
              << << AuditColumns[2].name, AuditColumns[3].name >>,
                 << << "F" >>, << "x" >> >> >>) }

FileById(id) == CHOOSE f \in Files : f.id = id

\* The table names an import is given: valid, valid in another letter case,
\* not an identifier, and the audit table.
ImportTableNames == { << "t" >>, << "T" >>, << "1", "t" >>, AuditTableName }

\* The create_index_on arguments: none, a column, no column, not an identifier.
IndexColumns == { << >>, << " ", "a" >>, << "z" >>, << "1", "z" >> }

\* The table names export_table_to_csv and table_info are given.
ExportTableNames == { << "t" >>, << " ", "t" >>, << "t", "'", " ", "-", "-" >> }
InfoTableNames == { << "T" >>, << "t", "'", ")", ";", " ", "-", "-" >> }

ExportPath == << "o", ".", "c", "s", "v" >>

\* hash(h) for the strings hs in process p: per string the value the process
\* already returned for it, else any value.
HashAssignments(p, hs) ==
    { g \in [hs -> HashValues] :
        \A h \in hs : h \in DOMAIN hash_memo[p] => g[h] = hash_memo[p][h] }

RememberAll(memo, g) ==
    [x \in DOMAIN memo \cup DOMAIN g |-> IF x \in DOMAIN g THEN g[x] ELSE memo[x]]

\* The header row is read and normalised: the checks before it passed.
ReadsHeader(file, table_name) ==
    ImportPrecheck(file, table_name) \in
        { "ok", "ValueError: CSV row length mismatch: expected" }

ImportCsvCall(file, table_name, append, create_index_on) ==
    \E hashes \in HashAssignments("p1",
                     IF ReadsHeader(file, table_name)
                     THEN HashedStrings(file.lines[1]) ELSE {}) :
      \E o \in { import_csv(tables, conn, err_log, file, table_name, append,
                            create_index_on, hashes) } :
        /\ tables' = o.tables
        /\ conn' = o.conn
        /\ handles' = IF o.conn THEN Opened(conn, handles) ELSE handles
        /\ err_log' = o.err
        /\ hash_memo' = [hash_memo EXCEPT !["p1"] = RememberAll(@, hashes)]
        /\ last' = [op |-> "import_csv", table_name |-> table_name,
                    file |-> IF "file" \in o.read THEN file.id ELSE "none",
                    append |-> "append" \in o.read /\ append,
                    create_index_on |-> IF "create_index_on" \in o.read
                                        THEN create_index_on ELSE << >>,
                    read |-> o.read, result |-> o.result, idents |-> o.idents,
                    output |-> << >>, query |-> << >>, pre |-> tables, pre_conn |-> conn]
        /\ ncalls' = ncalls + 1
        /\ UNCHANGED << queryVars, normalized, pureVars >>

\* The arguments worth telling apart: one the call does not read is given its
\* default.
ReadsAppend(file, table_name) ==
    /\ ImportPrecheck(file, table_name) = "ok"
    /\ sanitize_identifier(table_name) \in DOMAIN Connect(tables, conn)

ReadsIndex(file, table_name, append) ==
    /\ ImportPrecheck(file, table_name) = "ok"
    /\ ~(ReadsAppend(file, table_name) /\ ~append)
    /\ ~HasBadRow(RestOf(DataRows(file)), Len(file.lines[1]))

ImportCsv ==
    /\ ncalls < MaxCalls
    /\ \E table_name \in ImportTableNames :
         \E file \in IF sanitize_identifier_raises(table_name)
                     THEN { FileById("one") } ELSE Files :
           \E append \in IF ReadsAppend(file, table_name) THEN BOOLEAN ELSE { FALSE } :
             \E create_index_on \in IF ReadsIndex(file, table_name, append)
                                    THEN IndexColumns ELSE { << >> } :
               ImportCsvCall(file, table_name, append, create_index_on)

ExportTableToCsvCall(table_name) ==
    /\ \E o \in { export_table_to_csv(tables, conn, err_log, table_name, ExportPath) } :
           /\ tables' = o.tables
           /\ conn' = o.conn
           /\ handles' = Opened(conn, handles)
           /\ err_log' = o.err
           /\ last' = [op |-> "export_table_to_csv", table_name |-> table_name,
                       file |-> "none", append |-> FALSE, create_index_on |-> << >>,
                       read |-> {}, result |-> o.result, idents |-> o.idents,
                       output |-> o.output, query |-> << >>,
                       pre |-> tables, pre_conn |-> conn]
    /\ ncalls' = ncalls + 1
    /\ UNCHANGED << queryVars, headerVars, pureVars >>

ExportTableToCsv ==
    /\ ncalls < MaxCalls
    /\ \E table_name \in ExportTableNames : ExportTableToCsvCall(table_name)

TableInfoCall(table_name) ==
    /\ \E o \in { table_info(tables, conn, table_name) } :
           /\ tables' = o.tables
           /\ conn' = o.conn
           /\ handles' = Opened(conn, handles)
           /\ last' = [op |-> "table_info", table_name |-> table_name,
                       file |-> "none", append |-> FALSE, create_index_on |-> << >>,
                       read |-> {}, result |-> o.result, idents |-> o.idents,
                       output |-> o.output, query |-> << >>,
                       pre |-> tables, pre_conn |-> conn]
    /\ ncalls' = ncalls + 1
    /\ UNCHANGED << err_log, queryVars, headerVars, pureVars >>

TableInfo ==
    /\ ncalls < MaxCalls
    /\ \E table_name \in InfoTableNames : TableInfoCall(table_name)

Init ==
    /\ tables = NoTables
    /\ conn = FALSE
    /\ err_log = << >>
    /\ executed = << >>
    /\ stdin_read = << >>
    /\ stdout = << >>
    /\ history = << >>
    /\ hash_memo = [p \in Procs |-> << >>]
    /\ normalized = NoHeader
    /\ last = NoCall
    /\ ncalls = 0
    /\ handles = 0
    /\ sanitized = NoSanitize
    /\ inferred = NoInference

Next ==
    \/ ImportCsv
    \/ ExportTableToCsv
    \/ TableInfo

Spec == Init /\ [][Next]_vars

\* ------------------------------------------------------------------------
\* The connection: connect, close, and the operations that open it
\* ------------------------------------------------------------------------

\* The number of calls of one run of the connection's life.
MaxLifecycleCalls == 4

SelectOne == << "S", "E", "L", "E", "C", "T", " ", "1" >>
DropAuditLog ==
    << "D", "R", "O", "P", " ", "T", "A", "B", "L", "E", " " >> \o AuditTableName

\* The statements safe_query is given: a read, and one that is no read.
SafeQueries == { SelectOne, DropAuditLog }

\* The table a DROP TABLE statement names, << >> for another statement.
DroppedTable(query) ==
    LET q == StrStrip(query)
        drop == << "D", "R", "O", "P", " ", "T", "A", "B", "L", "E", " " >>
    IN  IF StartsWith(StrUpper(q), drop)
        THEN StrStrip(SubSeq(q, Len(drop) + 1, Len(q))) ELSE << >>

\* tbls without table k
RemoveTable(tbls, k) == [x \in DOMAIN tbls \ { k } |-> tbls[x]]

\* safe_query(query): connect, then cur.execute(query) with the statement as
\* it was given, and fetchall.
safe_query(tbls, connected, query) ==
    LET t1 == Connect(tbls, connected)
        dropped == DroppedTable(query)
    IN  IF dropped = << >>
        THEN [result |-> "ok", tables |-> t1, output |-> << << "1" >> >>]
        ELSE IF HasTable(t1, dropped)
        THEN [result |-> "ok", tables |-> RemoveTable(t1, TableKey(t1, dropped)),
              output |-> << >>]
        ELSE [result |-> "sqlite3.OperationalError: no such table", tables |-> t1,
              output |-> << >>]

\* list_tables(): connect, then the names of the tables not named sqlite_...
\* (the model keeps them as a set; the code returns them ordered by name).
list_tables(tbls, connected) ==
    [result |-> "ok", tables |-> Connect(tbls, connected),
     output |-> << DOMAIN Connect(tbls, connected) >>]

\* A call that is not import, export or table_info, as kept in last.
OtherCall(op, query, result, output) ==
    [op |-> op, table_name |-> << >>, file |-> "none", append |-> FALSE,
     create_index_on |-> << >>, read |-> {}, result |-> result, idents |-> {},
     output |-> output, query |-> query, pre |-> tables, pre_conn |-> conn]

ManagerConnect ==
    /\ ncalls < MaxLifecycleCalls
    /\ tables' = Connect(tables, conn)
    /\ conn' = TRUE
    /\ handles' = Opened(conn, handles)
    /\ last' = OtherCall("connect", << >>, "ok", << >>)
    /\ ncalls' = ncalls + 1
    /\ UNCHANGED << err_log, queryVars, headerVars, pureVars >>

\* close(): closes the connection when there is one, and unsets self.conn.
ManagerClose ==
    /\ ncalls < MaxLifecycleCalls
    /\ conn' = FALSE
    /\ handles' = IF conn THEN handles - 1 ELSE handles
    /\ last' = OtherCall("close", << >>, "ok", << >>)
    /\ ncalls' = ncalls + 1
    /\ UNCHANGED << tables, err_log, queryVars, headerVars, pureVars >>

ListTables ==
    /\ ncalls < MaxLifecycleCalls
    /\ \E o \in { list_tables(tables, conn) } :
         /\ tables' = o.tables
         /\ last' = OtherCall("list_tables", << >>, o.result, o.output)
    /\ conn' = TRUE
    /\ handles' = Opened(conn, handles)
    /\ ncalls' = ncalls + 1
    /\ UNCHANGED << err_log, queryVars, headerVars, pureVars >>

SafeQuery ==
    /\ ncalls < MaxLifecycleCalls
    /\ \E query \in SafeQueries :
         \E o \in { safe_query(tables, conn, query) } :
           /\ tables' = o.tables
           /\ last' = OtherCall("safe_query", query, o.result, o.output)
    /\ conn' = TRUE
    /\ handles' = Opened(conn, handles)
    /\ ncalls' = ncalls + 1
    /\ UNCHANGED << err_log, queryVars, headerVars, pureVars >>

\* The files and names the operations of the connection's life are given.
LifecycleFiles == { FileById("one"), FileById("bad3"), FileById("empty") }
LifecycleTableName == << "t" >>

LifecycleTableInfo ==
    /\ ncalls < MaxLifecycleCalls
    /\ TableInfoCall(LifecycleTableName)

LifecycleExport ==
    /\ ncalls < MaxLifecycleCalls
    /\ ExportTableToCsvCall(LifecycleTableName)

LifecycleImport ==
    /\ ncalls < MaxLifecycleCalls
    /\ \E file \in LifecycleFiles :
         \E append \in IF ReadsAppend(file, LifecycleTableName) THEN BOOLEAN ELSE { FALSE } :
           ImportCsvCall(file, LifecycleTableName, append, << >>)

InitLifecycle ==
    /\ tables = NoTables
    /\ conn = FALSE
    /\ err_log = << >>
    /\ executed = << >>
    /\ stdin_read = << >>
    /\ stdout = << >>
    /\ history = << >>
    /\ hash_memo = [p \in Procs |-> << >>]
    /\ normalized = NoHeader
    /\ last = NoCall
    /\ ncalls = 0
    /\ handles = 0
    /\ sanitized = NoSanitize
    /\ inferred = NoInference

NextLifecycle ==
    \/ ManagerConnect
    \/ ManagerClose
    \/ ListTables
    \/ SafeQuery
    \/ LifecycleTableInfo
    \/ LifecycleExport
    \/ LifecycleImport

SpecLifecycle == InitLifecycle /\ [][NextLifecycle]_vars

\* ------------------------------------------------------------------------
\* cli_query
\* ------------------------------------------------------------------------

\* The number of cli_query calls of one run of the model.
MaxQueries == 1

\* query[:200] is what the audit record keeps.
QueryDetailLen == 200

Words ==
    SAFE_SQL_PREFIXES \cup DANGEROUS_SQL_PREFIXES \cup
    { << >>,
      << "S", "E", "L", "E", "C" >>,
      << "C", "R", "E", "A", "T", "E" >>,
      << "C", "R", "E", "A", "T", "E", " ", " ", "T", "A", "B", "L", "E" >>,
      << "C", "R", "E", "A", "T", "E", "\t", "T", "A", "B", "L", "E" >>,
      << "C", "R", "E", "A", "T", "E", " ", "I", "N", "D", "E", "X" >>,
      << "A", "T", "T", "A", "C", "H" >>,
      << "V", "A", "C", "U", "U", "M" >>,
      << "W", "I", "T", "H" >> }

\* Upper case at the odd positions, lower case at the even ones.
MixedCase(s) ==
    [i \in DOMAIN s |-> IF i % 2 = 1 THEN UpperChar(s[i]) ELSE LowerChar(s[i])]

\* A statement: a word in some casing, bare or followed by more text and
\* surrounded by whitespace.
Statements ==
    Words
    \cup { << " ", "\t" >> \o StrLower(w) \o << " ", "x", ";", "\n" >> : w \in Words }
    \cup { MixedCase(w) \o << " ", "1" >> :
              w \in SAFE_SQL_PREFIXES \cup DANGEROUS_SQL_PREFIXES }
    \cup { << "S", "E", "L", "E", "C", "T", " " >> \o Repeat("1", QueryDetailLen) }

\* What the user types at the confirmation prompt.
Answers ==
    { << "y" >>, << "y", "e", "s" >>, << " ", "Y", "e", "s", "\n" >>,
      << "n" >>, << >>, << "y", "e", "s", "!" >> }

\* What the storage engine does with the statement and the audit insert.
EngineOutcomes == { "rows", "no_rows", "connect_fails", "execute_fails", "audit_fails" }

\* The confirmation test as startswith('y') instead of membership.
IsAffirmative_prefix(answer) ==
    StartsWith(StrLower(StrStrip(answer)), << "y" >>)

\* confirm = input(...).strip().lower() ; confirm in ('y', 'yes')
IsAffirmative(answer) ==
    StrLower(StrStrip(answer)) \in { << "y" >>, << "y", "e", "s" >> }

\* The statement is neither safe nor dangerous: refused.
CliQueryNotAllowed(query) ==
    /\ ~(is_sql_safe(query) \/ is_sql_dangerous(query))
    /\ stdout' = Append(stdout, "Error: Command not allowed.")
    /\ history' = Append(history, [query |-> query, asked |-> << >>, engine |-> "none"])
    /\ UNCHANGED << executed, stdin_read, dbVars, headerVars, callVars, pureVars >>

\* The statement is dangerous and the prompt is not answered y or yes.
CliQueryCancelled(query, answer) ==
    /\ is_sql_safe(query) \/ is_sql_dangerous(query)
    /\ is_sql_dangerous(query)
    /\ ~IsAffirmative(answer)
    /\ stdin_read' = Append(stdin_read, answer)
    /\ stdout' = Append(stdout, "Command cancelled.")
    /\ history' = Append(history, [query |-> query, asked |-> << answer >>, engine |-> "none"])
    /\ UNCHANGED << executed, dbVars, headerVars, callVars, pureVars >>

\* The try block: connect, execute, print, _log_event; any exception is
\* printed and logged to the error log.
CliQueryRun(query, asked, engine) ==
    /\ UNCHANGED << headerVars, callVars, pureVars >>
    /\ is_sql_safe(query) \/ is_sql_dangerous(query)
    /\ IF is_sql_dangerous(query)
       THEN Len(asked) = 1 /\ IsAffirmative(asked[1])
       ELSE asked = << >>
    /\ stdin_read' = stdin_read \o asked
    /\ history' = Append(history, [query |-> query, asked |-> asked, engine |-> engine])
    /\ IF engine = "connect_fails" /\ ~conn
       THEN /\ stdout' = Append(stdout, "Error executing query")
            /\ err_log' = Append(err_log, "query")
            /\ UNCHANGED << executed, tables, conn, handles >>
       ELSE /\ engine # "connect_fails"
            /\ conn' = TRUE
            /\ handles' = Opened(conn, handles)
            /\ executed' = Append(executed, query)
            /\ IF engine = "execute_fails"
               THEN /\ stdout' = Append(stdout, "Error executing query")
                    /\ err_log' = Append(err_log, "query")
                    /\ tables' = Connect(tables, conn)
               ELSE LET logged == LogEvent(Connect(tables, conn), err_log,
                                           "QUERY", Take(query, QueryDetailLen),
                                           engine # "audit_fails")
                    IN  /\ stdout' = Append(stdout,
                               IF is_sql_safe(query)
                               THEN IF engine = "rows" THEN "rows" ELSE "No results."
                               ELSE "Command executed successfully.")
                        /\ tables' = logged.tables
                        /\ err_log' = logged.err

cli_query ==
    /\ Len(history) < MaxQueries
    /\ \E query \in Statements :
          \/ CliQueryNotAllowed(query)
          \/ \E answer \in Answers : CliQueryCancelled(query, answer)
          \/ \E asked \in IF is_sql_dangerous(query)
                           THEN { << a >> : a \in Answers } ELSE { << >> },
                engine \in EngineOutcomes :
                CliQueryRun(query, asked, engine)

InitQuery ==
    /\ tables = NoTables
    /\ conn = FALSE
    /\ err_log = << >>
    /\ executed = << >>
    /\ stdin_read = << >>
    /\ stdout = << >>
    /\ history = << >>
    /\ hash_memo = [p \in Procs |-> << >>]
    /\ normalized = NoHeader
    /\ last = NoCall
    /\ ncalls = 0
    /\ handles = 0
    /\ sanitized = NoSanitize
    /\ inferred = NoInference

NextQuery == cli_query

SpecQuery == InitQuery /\ [][NextQuery]_vars


\* ------------------------------------------------------------------------
\* cli_create_table
\* ------------------------------------------------------------------------

\* The number of cli_create_table calls of one run of the model.
MaxCreates == 2

CreateTableKeyword == << "C", "R", "E", "A", "T", "E", " ", "T", "A", "B", "L", "E" >>
IfNotExistsKeyword ==
    << "I", "F", " ", "N", "O", "T", " ", "E", "X", "I", "S", "T", "S" >>
CreateBody == << " ", "c", " ", "(", "x", ")" >>
DropC == << "D", "R", "O", "P", " ", "T", "A", "B", "L", "E", " ", "c" >>

\* s between whitespace
Padded(s) == << " " >> \o s \o << " ", "\n" >>

\* The statements cli_create_table is given: a CREATE TABLE, with a final
\* semicolon, with two, followed by a second statement, with two spaces
\* inside the keyword, with IF NOT EXISTS, with a misspelt keyword, the bare
\* keyword, another statement, the empty string; some of them in lower and
\* mixed case and between whitespace.
CreateStatements ==
    LET plain == CreateTableKeyword \o CreateBody
        closed == plain \o << ";" >>
        second == plain \o << ";", " " >> \o DropC
        guarded == CreateTableKeyword \o << " " >> \o IfNotExistsKeyword \o CreateBody
    IN  { plain, closed, plain \o << ";", ";" >>, second,
          << "C", "R", "E", "A", "T", "E", " ", " ", "T", "A", "B", "L", "E" >> \o CreateBody,
          guarded, CreateTableKeyword \o << "x" >> \o CreateBody, CreateTableKeyword,
          DropC, << >>,
          StrLower(plain), MixedCase(closed), Padded(closed), Padded(StrLower(second)),
          Padded(DropC), StrLower(guarded) }

\* s[:-1]
AllButLast(s) == SubSeq(s, 1, Len(s) - 1)

\* A check for several statements that finds none.
HasInnerSemicolon_never(create_stmt) == FALSE

\* ";" in create_stmt.strip()[:-1]
HasInnerSemicolon(create_stmt) ==
    \E i \in DOMAIN AllButLast(StrStrip(create_stmt)) :
        AllButLast(StrStrip(create_stmt))[i] = ";"

\* not create_stmt.strip().upper().startswith("CREATE TABLE")
NotCreateTable(create_stmt) ==
    ~StartsWith(StrUpper(StrStrip(create_stmt)), CreateTableKeyword)

\* The characters of s before the first one in stops.
UpTo(s, stops) ==
    IF \E i \in DOMAIN s : s[i] \in stops
    THEN SubSeq(s, 1, (CHOOSE i \in DOMAIN s :
                          s[i] \in stops /\ \A j \in 1..(i - 1) : s[j] \notin stops) - 1)
    ELSE s

\* conn.execute(create_stmt) for a statement that begins with CREATE TABLE:
\* [error, tables]. More than one statement is refused by the sqlite3
\* module; the keyword is to be followed by whitespace, an optional IF NOT
\* EXISTS, a name and a column list; an existing table is an error without
\* IF NOT EXISTS.
ExecuteCreate(tbls, create_stmt) ==
    LET q == StrStrip(create_stmt)
        one == IF Len(q) > 0 /\ q[Len(q)] = ";" THEN StrStrip(AllButLast(q)) ELSE q
        after == SubSeq(one, Len(CreateTableKeyword) + 1, Len(one))
        rest == StrStrip(after)
        guarded == StartsWith(StrUpper(rest), IfNotExistsKeyword \o << " " >>)
        named == IF guarded
                 THEN StrStrip(SubSeq(rest, Len(IfNotExistsKeyword) + 1, Len(rest)))
                 ELSE rest
        name == UpTo(named, { " ", "(" })
        columns == StrStrip(SubSeq(named, Len(name) + 1, Len(named)))
    IN  IF \E i \in DOMAIN one : one[i] = ";"
        THEN [error |-> "sqlite3.ProgrammingError: one statement at a time", tables |-> tbls]
        ELSE IF \/ after = << >>
                \/ ~IsSpace(after[1])
                \/ ~IsIdentifier(name)
                \/ Len(columns) < 3
                \/ columns[1] # "("
                \/ columns[Len(columns)] # ")"
        THEN [error |-> "sqlite3.OperationalError: syntax error", tables |-> tbls]
        ELSE IF HasTable(tbls, name)
        THEN [error |-> IF guarded THEN "none"
                        ELSE "sqlite3.OperationalError: table already exists",
              tables |-> tbls]
        ELSE [error |-> "none",
              tables |-> PutTable(tbls, name,
                            [columns |-> << [name |-> SubSeq(columns, 2, Len(columns) - 1),
                                             type |-> "" ] >>,
                             rows |-> << >>, indexes |-> {}])]

\* What the storage engine does beyond the statement: the connection cannot
\* be opened, or the audit insert fails.
CreateEngineOutcomes == { "runs", "connect_fails", "audit_fails" }

CreateTableNotAllowed(create_stmt) ==
    /\ NotCreateTable(create_stmt)
    /\ stdout' = Append(stdout,
          "Error: Only CREATE TABLE statements are allowed for create-table command.")
    /\ history' = Append(history, [query |-> create_stmt, asked |-> << >>, engine |-> "none"])
    /\ UNCHANGED << executed, stdin_read, dbVars, headerVars, callVars, pureVars >>

CreateTableMultiple(create_stmt) ==
    /\ ~NotCreateTable(create_stmt)
    /\ HasInnerSemicolon(create_stmt)
    /\ stdout' = Append(stdout, "Error: Multiple statements are not allowed.")
    /\ history' = Append(history, [query |-> create_stmt, asked |-> << >>, engine |-> "none"])
    /\ UNCHANGED << executed, stdin_read, dbVars, headerVars, callVars, pureVars >>

\* The try block: connect, execute, _log_event, print; any exception is
\* printed and logged to the error log.
CreateTableRun(create_stmt, engine) ==
    /\ ~NotCreateTable(create_stmt)
    /\ ~HasInnerSemicolon(create_stmt)
    /\ history' = Append(history, [query |-> create_stmt, asked |-> << >>, engine |-> engine])
    /\ IF engine = "connect_fails" /\ ~conn
       THEN /\ stdout' = Append(stdout, "Error creating table")
            /\ err_log' = Append(err_log, "create_table")
            /\ UNCHANGED << executed, tables, conn, handles >>
       ELSE /\ engine # "connect_fails"
            /\ conn' = TRUE
            /\ handles' = Opened(conn, handles)
            /\ executed' = Append(executed, create_stmt)
            /\ \E done \in { ExecuteCreate(Connect(tables, conn), create_stmt) } :
                 IF done.error # "none"
                 THEN /\ stdout' = Append(stdout, "Error creating table")
                      /\ err_log' = Append(err_log, "create_table")
                      /\ tables' = done.tables
                 ELSE LET logged == LogEvent(done.tables, err_log, "CREATE_TABLE",
                                             create_stmt, engine # "audit_fails")
                      IN  /\ stdout' = Append(stdout, "Table created successfully.")
                          /\ tables' = logged.tables
                          /\ err_log' = logged.err
    /\ UNCHANGED << stdin_read, headerVars, callVars, pureVars >>

cli_create_table ==
    /\ Len(history) < MaxCreates
    /\ \E create_stmt \in CreateStatements :
          \/ CreateTableNotAllowed(create_stmt)
          \/ CreateTableMultiple(create_stmt)
          \/ \E engine \in CreateEngineOutcomes : CreateTableRun(create_stmt, engine)

InitCreate ==
    /\ tables = NoTables
    /\ conn = FALSE
    /\ err_log = << >>
    /\ executed = << >>
    /\ stdin_read = << >>
    /\ stdout = << >>
    /\ history = << >>
    /\ hash_memo = [p \in Procs |-> << >>]
    /\ normalized = NoHeader
    /\ last = NoCall
    /\ ncalls = 0
    /\ handles = 0
    /\ sanitized = NoSanitize
    /\ inferred = NoInference

NextCreate == cli_create_table

SpecCreate == InitCreate /\ [][NextCreate]_vars

\* ------------------------------------------------------------------------
\* Claims about the classifier and cli_query (checked under SpecQuery)
\* ------------------------------------------------------------------------

\* The three classes, as cli_query tells them apart.
Classify(sql) ==
    IF is_sql_safe(sql) THEN "Safe"
    ELSE IF is_sql_dangerous(sql) THEN "Dangerous"
    ELSE "Disallowed"

\* The keyword sets as the specification lists them.
SafeKeywords ==
    { << "S", "E", "L", "E", "C", "T" >>, << "P", "R", "A", "G", "M", "A" >>,
      << "E", "X", "P", "L", "A", "I", "N" >> }

DangerousKeywords ==
    { << "U", "P", "D", "A", "T", "E" >>, << "D", "E", "L", "E", "T", "E" >>,
      << "I", "N", "S", "E", "R", "T" >>, << "D", "R", "O", "P" >>,
      << "A", "L", "T", "E", "R" >>, << "R", "E", "P", "L", "A", "C", "E" >>,
      << "C", "R", "E", "A", "T", "E", " ", "T", "A", "B", "L", "E" >> }

\* text, trimmed and case-folded, begins with one of the keywords
BeginsWithOneOf(text, keywords) ==
    LET t == StrUpper(StrStrip(text))
    IN  \E k \in keywords :
           /\ Len(k) <= Len(t)
           /\ \A i \in 1..Len(k) : t[i] = k[i]

\* The same statement in other letter cases and with other whitespace around it.
Respellings(sql) ==
    { StrUpper(sql), StrLower(sql), MixedCase(sql), StrStrip(sql),
      << "\n", " " >> \o sql \o << "\t" >> }

\* C6: every statement cli_query was given falls in exactly one of Safe,
\* Dangerous and Disallowed: Safe iff, trimmed and case-folded, it begins with
\* SELECT, PRAGMA or EXPLAIN; Dangerous iff it begins with UPDATE, DELETE,
\* INSERT, DROP, ALTER, REPLACE or CREATE TABLE; Disallowed otherwise; never
\* both Safe and Dangerous; and every respelling of it in another letter case
\* or with other surrounding whitespace gets the same class.
C6_ClassifierPartition ==
    \A i \in DOMAIN history :
        LET q == history[i].query
        IN  /\ ~(is_sql_safe(q) /\ is_sql_dangerous(q))
            /\ is_sql_safe(q) <=> BeginsWithOneOf(q, SafeKeywords)
            /\ is_sql_dangerous(q) <=> BeginsWithOneOf(q, DangerousKeywords)
            /\ (Classify(q) = "Disallowed") <=>
                   ~BeginsWithOneOf(q, SafeKeywords \cup DangerousKeywords)
            /\ (stdout[i] = "Error: Command not allowed.") <=>
                   ~BeginsWithOneOf(q, SafeKeywords \cup DangerousKeywords)
            /\ \A r \in Respellings(q) : Classify(r) = Classify(q)

\* C6 witness: a dangerous statement written in lower case inside whitespace
\* was classified and reached the confirmation prompt.
C6_Witness ==
    \E i \in DOMAIN history :
        LET q == history[i].query
        IN  /\ Len(q) > 0 /\ IsSpace(q[1])
            /\ \E j \in DOMAIN q : IsLower(q[j])
            /\ Classify(q) = "Dangerous"
            /\ history[i].asked # << >>

\* The call may hand its statement to the database: Safe, or Dangerous and
\* the prompt answered y or yes.
MayExecute(h) ==
    \/ BeginsWithOneOf(h.query, SafeKeywords)
    \/ /\ BeginsWithOneOf(h.query, DangerousKeywords)
       /\ Len(h.asked) = 1
       /\ StrLower(StrStrip(h.asked[1])) \in { << "y" >>, << "y", "e", "s" >> }

Connected(h) == h.engine # "connect_fails"
Succeeded(h) == h.engine \in { "rows", "no_rows" }

QueryOf(hs) == [i \in DOMAIN hs |-> hs[i].query]

QueryRecordOf(hs) ==
    [i \in DOMAIN hs |-> [event_type |-> "QUERY", details |-> Take(hs[i].query, 200)]]

\* C7: the statements handed to the database are those of the calls that may
\* execute (Safe, or Dangerous and confirmed with y or yes), in order; a
\* Disallowed statement and an unconfirmed Dangerous one are never executed;
\* the unconfirmed Dangerous one prints "Command cancelled.", and only calls
\* that may execute write a QUERY audit record or an error-log entry.
C7_ExecuteOnlySafeOrConfirmed ==
    LET May(h) == MayExecute(h)
        Ran(h) == MayExecute(h) /\ Connected(h)
        Ok(h) == MayExecute(h) /\ Succeeded(h)
        Failed(h) == MayExecute(h) /\ ~Succeeded(h)
    IN  /\ executed = QueryOf(SelectSeq(history, Ran))
        /\ AuditRows(tables) = QueryRecordOf(SelectSeq(history, Ok))
        /\ Len(err_log) = Len(SelectSeq(history, Failed))
        /\ Len(stdout) = Len(history)
        /\ \A i \in DOMAIN history :
              LET h == history[i]
              IN  /\ (Classify(h.query) = "Dangerous" /\ ~May(h))
                        => stdout[i] = "Command cancelled."
                  /\ ~May(h) => stdout[i] \in { "Command cancelled.",
                                                "Error: Command not allowed." }

\* C7 witness: a Dangerous statement whose prompt was answered with something
\* other than y or yes was cancelled.
C7_Witness ==
    \E i \in DOMAIN history :
        /\ Classify(history[i].query) = "Dangerous"
        /\ history[i].asked = << << "y", "e", "s", "!" >> >>
        /\ stdout[i] = "Command cancelled."
        /\ executed = << >>


\* ------------------------------------------------------------------------
\* Claims about the header normalisation (checked under SpecHeader)
\* ------------------------------------------------------------------------

\* The number a string of decimal digits denotes.
RECURSIVE DecValue(_)
DecValue(d) ==
    IF d = << >> THEN 0
    ELSE 10 * DecValue(SubSeq(d, 1, Len(d) - 1)) + (CHOOSE k \in 0..9 : DigitChars[k + 1] = d[Len(d)])

\* name is col_{n} with 0 <= n < 65536
IsHashName(name) ==
    /\ Len(name) > 4
    /\ SubSeq(name, 1, 4) = << "c", "o", "l", "_" >>
    /\ \A j \in 5..Len(name) : IsDigit(name[j])
    /\ DecValue(SubSeq(name, 5, Len(name))) < 65536

\* C9: for every raw header cell and every positional index the normalisation
\* yields a result (every call of the model is one that returned), and the
\* result is a non-empty string matching [A-Za-z_][A-Za-z0-9_]*; the hash
\* fallback yields col_{n}, 0 <= n < 65536.
C9_NormalizeHeaderIsIdentifier ==
    normalized.proc # "none" =>
       /\ normalized.name # << >>
       /\ IsIdentStart(normalized.name[1])
       /\ \A j \in DOMAIN normalized.name : IsIdentChar(normalized.name[j])
       /\ NeedsHash(normalized.raw, normalized.index) => IsHashName(normalized.name)

\* C9 witness: a header that starts with a digit after the repair was given
\* the hash fallback name of a negative hash value.
C9_Witness ==
    /\ normalized.proc # "none"
    /\ normalized.raw = << "1", " ", "a" >>
    /\ normalized.name = << "c", "o", "l", "_", "6", "5", "5", "3", "5" >>

\* C10: the hash fallback name of a header is the same in every process: the
\* name the last normalisation produced by the fallback is the name any
\* process that has hashed the same header produces for it.
C10_FallbackNameDeterministic ==
    (normalized.proc # "none" /\ NeedsHash(normalized.raw, normalized.index)) =>
        LET h == StripOrPositional(normalized.raw, normalized.index)
        IN  \A q \in Procs :
               h \in DOMAIN hash_memo[q] =>
                  HashFallbackName(hash_memo[q][h]) = normalized.name

\* ------------------------------------------------------------------------
\* Claims about import_csv, export_table_to_csv and table_info
\* ------------------------------------------------------------------------

\* The tables of the database other than the audit log.
UserData(tbls) ==
    [k \in { n \in DOMAIN tbls : ~SameName(n, AuditTableName) } |-> tbls[k]]

LastImport == last.op = "import_csv"

\* The file of the last import, when the call got as far as looking at it.
LastFile == FileById(last.file)

PassesFileChecks(file, table_name) ==
    /\ ~sanitize_identifier_raises(table_name)
    /\ file.size <= MAX_CSV_SIZE
    /\ file.mime = "text/csv" \/ EndsWith(StrLower(file.path), << ".", "c", "s", "v" >>)
    /\ file.lines # << >>

\* Data row k of the file is not as wide as the header.
BadRowAt(file, k) ==
    /\ k + 1 \in DOMAIN file.lines
    /\ Len(file.lines[k + 1]) # Len(file.lines[1])

RowLengthErrors ==
    { "ValueError: CSV row length mismatch: expected",
      "ValueError: CSV row length mismatch during import" }

\* The target table of the last call is as it was before the call: absent if
\* it was absent, with the same rows if it was there.
TargetRowsUntouched ==
    LET tn == sanitize_identifier(last.table_name)
    IN  IF HasTable(last.pre, tn)
        THEN /\ HasTable(tables, tn)
             /\ tables[TableKey(tables, tn)].rows = last.pre[TableKey(last.pre, tn)].rows
        ELSE ~HasTable(tables, tn)

\* C1: an import of a file with a data row of the wrong width, at any
\* position, into a table that does not exist yet fails with the
\* row-length-mismatch error, and after an import that failed with that error
\* the target table holds no row of the file: it is still absent if it was
\* absent, and has exactly its earlier rows if it existed.
C1_RowMismatchLeavesNoRow ==
    LastImport =>
       /\ last.result \in RowLengthErrors => TargetRowsUntouched
       /\ ( /\ last.file # "none"
            /\ PassesFileChecks(LastFile, last.table_name)
            /\ \E k \in 1..Len(LastFile.lines) : BadRowAt(LastFile, k)
            /\ ~HasTable(last.pre, sanitize_identifier(last.table_name)) )
          => last.result \in RowLengthErrors

\* C2: an import of a file that passes the file checks and has a row of the
\* wrong width among its first 20 data rows fails with the row-shape error
\* of the sampling loop, and nothing was executed against the database: the
\* tables are what they were and the manager is connected only if it was.
C2_SampleMismatchBeforeDatabase ==
    ( /\ LastImport
      /\ last.file # "none"
      /\ PassesFileChecks(LastFile, last.table_name)
      /\ \E k \in 1..SampleRows : BadRowAt(LastFile, k) )
    => /\ last.result = "ValueError: CSV row length mismatch: expected"
       /\ tables = last.pre
       /\ conn = last.pre_conn

\* C2 witness: the file whose 20th data row is too wide was imported after an
\* earlier import had created the target table, and it failed.
C2_Witness ==
    /\ LastImport
    /\ last.file = "bad20"
    /\ last.result = "ValueError: CSV row length mismatch: expected"
    /\ HasTable(last.pre, sanitize_identifier(last.table_name))
    /\ tables = last.pre

StorageErrors ==
    { "sqlite3.OperationalError: duplicate column name",
      "sqlite3.OperationalError: table has no column named",
      "sqlite3.OperationalError: no such column" }

\* C3: after an import that failed with a storage-engine error the tables of
\* the database are what they were before the call: no table created, no row
\* inserted.
C3_StorageErrorLeavesDatabase ==
    (LastImport /\ last.result \in StorageErrors) =>
        UserData(tables) = UserData(last.pre)

ValidationErrors ==
    { "ValueError: Invalid identifier",
      "ValueError: CSV file size exceeds max allowed",
      "ValueError: Invalid file type. Only CSV allowed.",
      "ValueError: CSV appears empty" }

\* C4: after an import that failed with a validation error no table was
\* created, no row inserted, no index created and no audit record written.
C4_ValidationErrorBeforeMutation ==
    (LastImport /\ last.result \in ValidationErrors) =>
        /\ UserData(tables) = UserData(last.pre)
        /\ AuditRows(tables) = AuditRows(last.pre)

\* C5: an import with append=False of a file that passes the file and
\* row-shape checks into a table the database already has fails with the
\* table-exists error and leaves the tables, their indexes and the audit log
\* as they were.
C5_ExistingTableWithoutAppend ==
    ( /\ LastImport
      /\ last.file # "none"
      /\ PassesFileChecks(LastFile, last.table_name)
      /\ ~\E k \in 1..Len(LastFile.lines) : BadRowAt(LastFile, k)
      /\ ~last.append
      /\ HasTable(last.pre, sanitize_identifier(last.table_name)) )
    => /\ last.result = "FileExistsError"
       /\ UserData(tables) = UserData(last.pre)
       /\ AuditRows(tables) = AuditRows(last.pre)

\* C8: every name the last call of import_csv, export_table_to_csv or
\* table_info put into statement text matches [A-Za-z_][A-Za-z0-9_]*.
C8_OnlyIdentifiersInStatements ==
    last.op \in { "import_csv", "export_table_to_csv", "table_info" } =>
        \A name \in last.idents : IsIdentifier(name)

\* ------------------------------------------------------------------------
\* Claims about sanitize_identifier
\* ------------------------------------------------------------------------

\* s without the whitespace at its two ends.
Trimmed(s) ==
    IF \A i \in DOMAIN s : IsSpace(s[i]) THEN << >>
    ELSE LET first == CHOOSE i \in DOMAIN s :
                         ~IsSpace(s[i]) /\ \A j \in 1..(i - 1) : IsSpace(s[j])
             final == CHOOSE i \in DOMAIN s :
                         ~IsSpace(s[i]) /\ \A j \in (i + 1)..Len(s) : IsSpace(s[j])
         IN  SubSeq(s, first, final)

\* C11: sanitize_identifier returns its argument without the surrounding
\* whitespace when that trimmed string matches [A-Za-z_][A-Za-z0-9_]* and
\* raises the invalid-identifier error otherwise, for the empty string and
\* for an argument that is not a string too; a valid identifier is returned
\* as it is, and sanitizing a returned value returns it again.
C11_SanitizeIdentifier ==
    sanitized.raised # "no call" =>
       LET arg == sanitized.arg
           valid == arg.is_str /\ IsIdentifier(Trimmed(arg.chars))
       IN  /\ valid => sanitized.raised = "no" /\ sanitized.value = Trimmed(arg.chars)
           /\ ~valid => sanitized.raised \in { "ValueError: Invalid identifier",
                                               "ValueError: Identifier must be a string" }
           /\ (arg.is_str /\ IsIdentifier(arg.chars)) => sanitized.value = arg.chars
           /\ sanitized.raised = "no" =>
                 sanitize_identifier_call([is_str |-> TRUE, chars |-> sanitized.value])
                    = [arg |-> [is_str |-> TRUE, chars |-> sanitized.value],
                       raised |-> "no", value |-> sanitized.value]

\* C11 witness: an identifier with whitespace before and after it was
\* returned without the whitespace.
C11_Witness ==
    /\ sanitized.arg = [is_str |-> TRUE, chars |-> << " ", "a", "\n" >>]
    /\ sanitized.raised = "no"
    /\ sanitized.value = << "a" >>

\* ------------------------------------------------------------------------
\* Claims about consistent_types
\* ------------------------------------------------------------------------

\* The sample is empty or parses neither as an integer nor as a float.
ForcesText(v) == v = << >> \/ (~PyIsInt(v) /\ ~PyIsFloat(v))

\* The sample parses as a float and not as an integer.
FloatOnly(v) == PyIsFloat(v) /\ ~PyIsInt(v)

\* C12: consistent_types returns TEXT iff some sample is empty or parses
\* neither as an integer nor as a float; otherwise REAL iff some sample
\* parses as a float and not as an integer; otherwise INTEGER, for no sample
\* at all too. A float-only sample followed by integers still gives REAL.
C12_ConsistentTypes ==
    inferred.type # "none" =>
       LET v == inferred.values
           text == \E i \in DOMAIN v : ForcesText(v[i])
           real == \E i \in DOMAIN v : FloatOnly(v[i])
       IN  /\ inferred.type \in { "TEXT", "REAL", "INTEGER" }
           /\ inferred.type = "TEXT" <=> text
           /\ inferred.type = "REAL" <=> (~text /\ real)
           /\ inferred.type = "INTEGER" <=> (~text /\ ~real)
           /\ v = << >> => inferred.type = "INTEGER"

\* C12 witness: a float followed by an integer was typed REAL.
C12_Witness ==
    /\ inferred.values = << << "1", ".", "5" >>, << "1" >> >>
    /\ inferred.type = "REAL"

\* The orders of n samples.
Orders(n) ==
    { p \in [1..n -> 1..n] : \A i, j \in 1..n : i # j => p[i] # p[j] }

\* C20: consistent_types returns the same type for every order of its
\* samples.
C20_TypeIgnoresOrder ==
    inferred.type # "none" =>
       \A p \in Orders(Len(inferred.values)) :
          consistent_types([i \in DOMAIN inferred.values |-> inferred.values[p[i]]])
             = inferred.type

\* C20 witness: the scan returned TEXT at a first sample that is no number,
\* before it reached the float and the integer after it.
C20_Witness ==
    /\ inferred.values = << << "x" >>, << "1", ".", "5" >>, << "1" >> >>
    /\ inferred.type = "TEXT"

\* ------------------------------------------------------------------------
\* Claims about import followed by export, the audit log, append, types
\* and the file checks
\* ------------------------------------------------------------------------

\* The name the last call's table_name is sanitized to.
LastTable == sanitize_identifier(last.table_name)

\* The table the last import names does not exist when the import looks.
FreshTarget == ~HasTable(Connect(last.pre, last.pre_conn), LastTable)

\* Unique valid headers, every row as wide as the header.
WellFormed(file) ==
    /\ file.lines # << >>
    /\ \A i \in DOMAIN file.lines[1] : IsIdentifier(file.lines[1][i])
    /\ \A i, j \in DOMAIN file.lines[1] :
          i # j => ~SameName(file.lines[1][i], file.lines[1][j])
    /\ \A k \in DOMAIN file.lines : Len(file.lines[k]) = Len(file.lines[1])

\* What the export of a table imported from file is to write: the header,
\* then the data rows with every cell trimmed.
RoundTrip(file) ==
    << file.lines[1] >>
    \o [k \in 1..(Len(file.lines) - 1) |->
           [c \in DOMAIN file.lines[k + 1] |-> Trimmed(file.lines[k + 1][c])]]

\* C13: when a well-formed CSV has been imported into a fresh table and the
\* next call exports that table, the export writes the header names of the
\* file in their order and the rows of the file in their order, every cell
\* as in the file up to the trimming.
C13_ImportExportRoundTrip ==
    [][ ( /\ LastImport
          /\ last.result = "ok"
          /\ last.file # "none"
          /\ PassesFileChecks(LastFile, last.table_name)
          /\ WellFormed(LastFile)
          /\ FreshTarget
          /\ last'.op = "export_table_to_csv"
          /\ last'.table_name = LastTable
          /\ last'.result = "ok" )
        => last'.output = RoundTrip(LastFile) ]_vars

\* C14: a successful import_csv or export_table_to_csv on an open manager
\* leaves the audit log with its earlier records and exactly one more, an
\* IMPORT_CSV or EXPORT_CSV record; a failed one leaves the audit log as it
\* was.
C14_OneAuditRecordPerSuccess ==
    (last.op \in { "import_csv", "export_table_to_csv" } /\ last.pre_conn) =>
       IF last.result = "ok"
       THEN /\ Len(AuditRows(tables)) = Len(AuditRows(last.pre)) + 1
            /\ SubSeq(AuditRows(tables), 1, Len(AuditRows(last.pre))) = AuditRows(last.pre)
            /\ AuditRows(tables)[Len(AuditRows(tables))].event_type
                  \in { "IMPORT_CSV", "EXPORT_CSV" }
       ELSE AuditRows(tables) = AuditRows(last.pre)

\* The data rows of the file up to the 20th.
FirstRows(file) ==
    [k \in 1..(IF Len(file.lines) - 1 < 20 THEN Len(file.lines) - 1 ELSE 20) |->
        file.lines[k + 1]]

\* The type of column c by the first 20 data rows.
TypeByFirstRows(file, c) ==
    consistent_types([k \in DOMAIN FirstRows(file) |-> FirstRows(file)[k][c]])

\* The last call is an import with append=True into a table that exists.
AppendToExisting ==
    /\ LastImport
    /\ last.append
    /\ HasTable(last.pre, LastTable)

\* The schema of the target is what it was, and after a success the target
\* holds its earlier rows and then one row per data row of the file.
SchemaKeptRowsAppended ==
    LET old == last.pre[TableKey(last.pre, LastTable)]
        new == tables[TableKey(tables, LastTable)]
    IN  /\ HasTable(tables, LastTable)
        /\ new.columns = old.columns
        /\ last.result = "ok" =>
              /\ Len(new.rows) = Len(old.rows) + Len(DataRows(LastFile))
              /\ SubSeq(new.rows, 1, Len(old.rows)) = old.rows

C16_TypesFromFirstTwentyRows ==
    ( /\ LastImport
      /\ last.file # "none"
      /\ PassesFileChecks(LastFile, last.table_name)
      /\ \A k \in DOMAIN LastFile.lines : Len(LastFile.lines[k]) = Len(LastFile.lines[1])
      /\ FreshTarget
      /\ last.create_index_on = << >> )
    => /\ last.result = "ok"
       /\ LET columns == tables[TableKey(tables, LastTable)].columns
          IN  /\ Len(columns) = Len(LastFile.lines[1])
              /\ \A c \in DOMAIN columns : columns[c].type = TypeByFirstRows(LastFile, c)
              /\ \A g \in Files :
                    ( /\ g.lines # << >>
                      /\ g.lines[1] = LastFile.lines[1]
                      /\ FirstRows(g) = FirstRows(LastFile)
                      /\ ImportPrecheck(g, last.table_name) = "ok" )
                    => LET other == import_csv(last.pre, last.pre_conn, << >>, g,
                                               last.table_name, FALSE, << >>, << >>)
                       IN  other.tables[TableKey(other.tables, LastTable)].columns = columns

\* C16 witness: the file whose 21st row holds a text and a float was
\* imported, and both columns are INTEGER.
C16_Witness ==
    /\ LastImport
    /\ last.file = "long"
    /\ last.result = "ok"
    /\ FreshTarget
    /\ \A c \in 1..2 : tables[TableKey(tables, LastTable)].columns[c].type = "INTEGER"
    /\ tables[TableKey(tables, LastTable)].rows[21][1] = TextValue(<< "x" >>)

\* C17: an import that got to the file checks fails with the too-large
\* error iff the file is larger than 10 * 1024 * 1024 bytes, whatever its
\* type; a file not too large fails with the file-type error iff its guessed
\* media type is not text/csv and its name does not end in .csv in any letter
\* case; after either error the database and the connection are untouched.
C17_SizeAndTypeChecks ==
    (LastImport /\ last.file # "none") =>
       LET tooLarge == LastFile.size > 10 * 1024 * 1024
           isCsv == \/ LastFile.mime = "text/csv"
                    \/ EndsWith(StrLower(LastFile.path), << ".", "c", "s", "v" >>)
       IN  /\ last.result = "ValueError: CSV file size exceeds max allowed" <=> tooLarge
           /\ last.result = "ValueError: Invalid file type. Only CSV allowed."
                 <=> (~tooLarge /\ ~isCsv)
           /\ (tooLarge \/ ~isCsv) => (tables = last.pre /\ conn = last.pre_conn)

\* C17 witness: a file of exactly 10 MiB was imported.
C17_Witness ==
    /\ LastImport
    /\ last.file = "one"
    /\ LastFile.size = 10 * 1024 * 1024
    /\ last.result = "ok"

\* ------------------------------------------------------------------------
\* Claims about the connection
\* ------------------------------------------------------------------------

\* The calls that reach connect() whatever their arguments.
AlwaysConnects ==
    { "connect", "list_tables", "table_info", "safe_query", "export_table_to_csv" }

\* No connection before the first call; never more than one, and one exactly
\* when the handle is set; after a call that reaches connect() the handle is
\* open, also when the call before was close; after close it is not.
OneLazyHandle ==
    /\ ncalls = 0 => (~conn /\ handles = 0)
    /\ handles \in { 0, 1 }
    /\ conn <=> handles = 1
    /\ last.op \in AlwaysConnects => conn
    /\ last.op = "close" => ~conn
    /\ (last.op = "import_csv" /\ ~conn) => last.result \in ValidationErrors \cup RowLengthErrors

HasAuditTable(tbls) == HasTable(tbls, AuditTableName)

IsSingleCreateTable(create_stmt) ==
    LET t == Trimmed(create_stmt)
    IN  /\ Len(t) >= 12
        /\ StrUpper(SubSeq(t, 1, 12))
              = << "C", "R", "E", "A", "T", "E", " ", "T", "A", "B", "L", "E" >>
        /\ \A i \in 1..(Len(t) - 1) : t[i] # ";"

CreateRejections ==
    { "Error: Only CREATE TABLE statements are allowed for create-table command.",
      "Error: Multiple statements are not allowed." }

\* The calls that printed what.
CallsThatPrinted(texts) == { i \in DOMAIN stdout : stdout[i] \in texts }

\* The entries of the error log of a kind.
ErrorsOfKind(kind) == { i \in DOMAIN err_log : err_log[i] = kind }

\* C19: every statement handed to the database by cli_create_table is a
\* single CREATE TABLE statement; every other statement is refused, and a
\* refused call executes nothing; the CREATE_TABLE audit records are those of
\* the calls that executed successfully (and whose audit insert did not
\* fail), and every call whose execution failed left one entry in the
\* diagnostic log and no audit record.
C19_CreateTableOnly ==
    /\ \A i \in DOMAIN executed : IsSingleCreateTable(executed[i])
    /\ \A i \in DOMAIN history :
          ~IsSingleCreateTable(history[i].query) => stdout[i] \in CreateRejections
    /\ Len(stdout) = Len(history)
    /\ Len(executed) = Cardinality({ i \in DOMAIN history :
                          stdout[i] \notin CreateRejections
                          /\ history[i].engine # "connect_fails" })
    /\ \A i \in DOMAIN AuditRows(tables) : AuditRows(tables)[i].event_type = "CREATE_TABLE"
    /\ Len(AuditRows(tables)) =
          Cardinality({ i \in CallsThatPrinted({ "Table created successfully." }) :
                           history[i].engine # "audit_fails" })
    /\ Cardinality(ErrorsOfKind("create_table"))
          = Cardinality(CallsThatPrinted({ "Error creating table" }))

\* C19 witness: a CREATE TABLE between whitespace and closed by a semicolon
\* was executed and audited, and a second call that repeated it failed in
\* the database and went to the diagnostic log.
C19_Witness ==
    /\ Len(history) = 2
    /\ history[1].query = Padded(CreateTableKeyword \o CreateBody \o << ";" >>)
    /\ stdout = << "Table created successfully.", "Error creating table" >>
    /\ Len(AuditRows(tables)) = 1
    /\ err_log = << "create_table" >>

====
